---- MODULE Spec2Model ----
(***************************************************************************)
(* Model of app/services/llm_service.py (LLMService) and of the router     *)
(* app/routers/translate.py that calls it.                                 *)
(*                                                                         *)
(* Python strings are TLA+ strings; the substring test `kw in q`,          *)
(* str.lower(), str.strip() and ', '.join() are computed character by      *)
(* character.  Python values whose shape matters (the request's schema and *)
(* examples, the content of a model response) are tagged records.  A       *)
(* Python call that may raise returns [raised |-> TRUE, error |-> msg] or  *)
(* [raised |-> FALSE, value |-> v].  Confidences are in hundredths.        *)
(*                                                                         *)
(* TLC keeps ASCII strings only, so the four accented letters of the       *)
(* keywords are written as one ASCII character each, which keeps lengths   *)
(* and substrings as they are:                                             *)
(*     ~  a with tilde      ^  e with circumflex                           *)
(*     &  c with cedilla    #  o with tilde                                *)
(* so that "regi~o" is the keyword of line 204 and "m^s" that of line 206  *)
(* (which has no "mes" in it, as in Python).                               *)
(***************************************************************************)
EXTENDS Integers, Sequences, FiniteSets, TLC

VARIABLES
    client,     \* self.client is set: OPENAI_API_KEY was there at construction
    pc,         \* where the request in hand is: "idle", "calling" (inside
                \* client.chat.completions.create), "done" (generate_query
                \* returned), "raised" (generate_query raised)
    request,    \* the QueryRequest in hand
    prompt,     \* the prompt sent to the model
    calls,      \* calls of client.chat.completions.create for this request
    outcome,    \* what the model call did: "none", "returned", "raised"
    response,   \* the response the model call returned
    result      \* what generate_query returned (Ok) or raised (Raise)

vars == <<client, pc, request, prompt, calls, outcome, response, result>>

(***************************************************************************)
(* Bounds of the model.                                                    *)
(***************************************************************************)
\* A question is at most MaxWords distinct words of the vocabulary, joined by
\* spaces.
MaxWords == 3

(***************************************************************************)
(* Python strings.                                                         *)
(***************************************************************************)
\* kw in q
Contains(q, kw) ==
    \E i \in 1..(Len(q) - Len(kw) + 1) : SubSeq(q, i, i + Len(kw) - 1) = kw

StartsWith(s, p) == Len(p) <= Len(s) /\ SubSeq(s, 1, Len(p)) = p

EndsWith(s, p) == Len(p) <= Len(s) /\ SubSeq(s, Len(s) - Len(p) + 1, Len(s)) = p

LowerOf ==
    ("A" :> "a") @@ ("B" :> "b") @@ ("C" :> "c") @@ ("D" :> "d") @@ ("E" :> "e") @@
    ("F" :> "f") @@ ("G" :> "g") @@ ("H" :> "h") @@ ("I" :> "i") @@ ("J" :> "j") @@
    ("K" :> "k") @@ ("L" :> "l") @@ ("M" :> "m") @@ ("N" :> "n") @@ ("O" :> "o") @@
    ("P" :> "p") @@ ("Q" :> "q") @@ ("R" :> "r") @@ ("S" :> "s") @@ ("T" :> "t") @@
    ("U" :> "u") @@ ("V" :> "v") @@ ("W" :> "w") @@ ("X" :> "x") @@ ("Y" :> "y") @@
    ("Z" :> "z")

LowerChar(c) == IF c \in DOMAIN LowerOf THEN LowerOf[c] ELSE c

\* s.lower(), character by character (the string is halved to keep the
\* evaluation shallow)
RECURSIVE Lower(_)
Lower(s) ==
    IF Len(s) = 0 THEN ""
    ELSE IF Len(s) = 1 THEN LowerChar(s)
    ELSE Lower(SubSeq(s, 1, Len(s) \div 2))
             \o Lower(SubSeq(s, (Len(s) \div 2) + 1, Len(s)))

Whitespace == {" ", "\n", "\t", "\r"}

RECURSIVE LStrip(_)
LStrip(s) ==
    IF Len(s) > 0 /\ SubSeq(s, 1, 1) \in Whitespace
    THEN LStrip(SubSeq(s, 2, Len(s)))
    ELSE s

RECURSIVE RStrip(_)
RStrip(s) ==
    IF Len(s) > 0 /\ SubSeq(s, Len(s), Len(s)) \in Whitespace
    THEN RStrip(SubSeq(s, 1, Len(s) - 1))
    ELSE s

\* s.strip()
Strip(s) == RStrip(LStrip(s))

\* sep.join(parts)
RECURSIVE Join(_, _)
Join(parts, sep) ==
    IF Len(parts) = 0 THEN ""
    ELSE IF Len(parts) = 1 THEN parts[1]
    ELSE parts[1] \o sep \o Join(Tail(parts), sep)

Digit == <<"0", "1", "2", "3", "4", "5", "6", "7", "8", "9">>

\* f"{n}" of a non-negative int
RECURSIVE IntToStr(_)
IntToStr(n) ==
    IF n < 10 THEN Digit[n + 1]
    ELSE IntToStr(n \div 10) \o Digit[(n % 10) + 1]

(***************************************************************************)
(* Python values.                                                          *)
(***************************************************************************)
PyNone == [t |-> "None"]
PyStr(s) == [t |-> "str", s |-> s]
\* a dict keeps insertion order: a sequence of <<key, value>>
PyDict(items) == [t |-> "dict", items |-> items]
PyList(elems) == [t |-> "list", elems |-> elems]

Ok(v) == [raised |-> FALSE, value |-> v]
Raise(msg) == [raised |-> TRUE, error |-> msg]

\* bool(v)
Truthy(v) ==
    CASE v.t = "None" -> FALSE
      [] v.t = "str" -> v.s # ""
      [] v.t = "dict" -> Len(v.items) > 0
      [] v.t = "list" -> Len(v.elems) > 0

HasKey(d, key) == \E i \in 1..Len(d.items) : d.items[i][1] = key

Lookup(d, key) ==
    d.items[CHOOSE i \in 1..Len(d.items) : d.items[i][1] = key][2]

\* v.get(key, default): AttributeError unless v is a dict
Get(v, key, default) ==
    IF v.t # "dict"
    THEN Raise("'" \o v.t \o "' object has no attribute 'get'")
    ELSE Ok(IF HasKey(v, key) THEN Lookup(v, key) ELSE default)

\* f"{v}"
Format(v) ==
    CASE v.t = "None" -> "None"
      [] v.t = "str" -> v.s
      [] v.t = "dict" -> "{...}"
      [] v.t = "list" -> "[...]"

(***************************************************************************)
(* generate_query: the built-in schema.                                    *)
(***************************************************************************)
Column(type, description) ==
    PyDict(<< <<"type", PyStr(type)>>, <<"description", PyStr(description)>> >>)

default_schema ==
    PyDict(<< <<"tables", PyDict(<< <<"sales", PyDict(<< <<"columns", PyDict(<<
        <<"id", Column("INTEGER", "Primary key")>>,
        <<"region", Column("TEXT", "Sales region (North, South, East, West)")>>,
        <<"product", Column("TEXT", "Product name (Product A, Product B)")>>,
        <<"month", Column("TEXT", "Month name (January, February, etc.)")>>,
        <<"sales_amount", Column("REAL", "Total sales amount in currency")>>,
        <<"quantity", Column("INTEGER", "Number of units sold")>>,
        <<"created_at", Column("DATETIME", "Record creation timestamp")>>
    >>)>> >>)>> >>)>> >>)

\* schema = request.schema or default_schema
ResolveSchema(schema) == IF Truthy(schema) THEN schema ELSE default_schema

(***************************************************************************)
(* _format_schema                                                          *)
(***************************************************************************)
\* d.items(): AttributeError unless d is a dict
Items(d) ==
    IF d.t # "dict"
    THEN Raise("'" \o d.t \o "' object has no attribute 'items'")
    ELSE Ok(d.items)

\* one line of the inner loop
FormatColumn(col_name, col_info) ==
    LET type == Get(col_info, "type", PyStr("TEXT"))
        description == Get(col_info, "description", PyStr(""))
    IN  IF type.raised THEN type
        ELSE Ok("  - " \o col_name \o " (" \o Format(type.value) \o "): "
                \o Format(description.value) \o "\n")

\* the inner loop over table_info.get("columns", {}).items()
RECURSIVE FormatColumns(_)
FormatColumns(cols) ==
    IF Len(cols) = 0 THEN Ok("")
    ELSE LET head == FormatColumn(cols[1][1], cols[1][2])
         IN  IF head.raised THEN head
             ELSE LET rest == FormatColumns(Tail(cols))
                  IN  IF rest.raised THEN rest
                      ELSE Ok(head.value \o rest.value)

\* one pass of the outer loop
FormatTable(table_name, table_info) ==
    LET columns == Get(table_info, "columns", PyDict(<<>>))
    IN  IF columns.raised THEN columns
        ELSE LET items == Items(columns.value)
             IN  IF items.raised THEN items
                 ELSE LET body == FormatColumns(items.value)
                      IN  IF body.raised THEN body
                          ELSE Ok("\nTable: " \o table_name \o "\n" \o body.value)

\* the outer loop over schema.get("tables", {}).items()
RECURSIVE FormatTables(_)
FormatTables(tables) ==
    IF Len(tables) = 0 THEN Ok("")
    ELSE LET head == FormatTable(tables[1][1], tables[1][2])
         IN  IF head.raised THEN head
             ELSE LET rest == FormatTables(Tail(tables))
                  IN  IF rest.raised THEN rest
                      ELSE Ok(head.value \o rest.value)

_format_schema(schema) ==
    LET tables == Get(schema, "tables", PyDict(<<>>))
    IN  IF tables.raised THEN tables
        ELSE LET items == Items(tables.value)
             IN  IF items.raised THEN items
                 ELSE LET body == FormatTables(items.value)
                      IN  IF body.raised THEN body
                          ELSE Ok("Database Schema:\n" \o body.value)

(***************************************************************************)
(* _build_prompt.  The two fixed blocks of text (the built-in examples and *)
(* the instructions) are cut to their first lines: the prompt is read by   *)
(* the external model alone.                                               *)
(***************************************************************************)
DefaultExamplesText ==
    "\nExamples:\nQuestion: Quero vendas por regi~o no m^s de maio\n" \o
    "SQL: SELECT region, SUM(sales_amount) AS total_sales FROM sales " \o
    "WHERE month = 'May' GROUP BY region ORDER BY total_sales DESC\n"

Guidelines ==
    "\nInstructions:\n- Return ONLY the SQL. No markdown, no explanations.\n" \o
    "- Use SELECT-only queries compatible with SQLite.\n"

\* the loop over the caller's examples
RECURSIVE FormatExamples(_)
FormatExamples(examples) ==
    IF Len(examples) = 0 THEN Ok("")
    ELSE LET question == Get(examples[1], "question", PyStr(""))
             sql == Get(examples[1], "sql", PyStr(""))
         IN  IF question.raised THEN question
             ELSE LET rest == FormatExamples(Tail(examples))
                  IN  IF rest.raised THEN rest
                      ELSE Ok("Question: " \o Format(question.value) \o "\n"
                              \o "SQL: " \o Format(sql.value) \o "\n\n"
                              \o rest.value)

_build_prompt(question, schema, examples) ==
    LET schema_desc == _format_schema(schema)
        given == IF Truthy(examples) THEN FormatExamples(examples.elems) ELSE Ok("")
    IN  IF schema_desc.raised THEN schema_desc
        ELSE IF given.raised THEN given
        ELSE LET examples_text ==
                     IF Truthy(examples) THEN "\n\nExamples:\n" \o given.value
                     ELSE DefaultExamplesText
             IN  Ok("Given the following database schema:\n\n" \o schema_desc.value
                    \o "\n\n" \o examples_text \o "\n\n" \o Guidelines
                    \o "\n\nQuestion: " \o question
                    \o "\n\nReturn only the SQL query that answers the question.\n")

(***************************************************************************)
(* _generate_suggestions                                                   *)
(***************************************************************************)
\* any(word in q for word in words)
AnyIn(q, words) == \E word \in words : Contains(q, word)

SalesWords == {"vendas", "sales", "amount", "quantidade"}
PlaceWords == {"regi~o", "region", "produto", "product"}
TimeWords == {"tempo", "time", "m^s", "month", "crescimento", "varia&~o", "evolu&~o"}

Visualizations(question_lower) ==
    IF AnyIn(question_lower, SalesWords)
    THEN IF AnyIn(question_lower, PlaceWords) THEN <<"bar_chart">>
         ELSE IF AnyIn(question_lower, TimeWords) THEN <<"line_chart">>
         ELSE <<"pie_chart">>
    ELSE <<"table">>

FollowUpQuestions(question_lower) ==
    IF Contains(question_lower, "regi~o") \/ Contains(question_lower, "region")
    THEN <<"Quais regi#es tiveram melhor performance?",
           "Compare vendas por regi~o e produto">>
    ELSE IF Contains(question_lower, "produto") \/ Contains(question_lower, "product")
    THEN <<"Qual produto teve maior crescimento?",
           "Mostre vendas por produto ao longo do tempo">>
    ELSE <<"Quero vendas por regi~o no m^s de maio",
           "Mostre os top 5 produtos por quantidade vendida">>

_generate_suggestions(question, schema) ==
    LET question_lower == Lower(question)
    IN  [visualizations |-> Visualizations(question_lower),
         follow_up_questions |-> FollowUpQuestions(question_lower)]

(***************************************************************************)
(* _fallback_sql                                                           *)
(***************************************************************************)
MonthOrder ==
    "CASE lower(month) WHEN 'january' THEN 1 WHEN 'february' THEN 2 " \o
    "WHEN 'march' THEN 3 WHEN 'april' THEN 4 WHEN 'may' THEN 5 WHEN 'june' THEN 6 " \o
    "WHEN 'july' THEN 7 WHEN 'august' THEN 8 WHEN 'september' THEN 9 " \o
    "WHEN 'october' THEN 10 WHEN 'november' THEN 11 WHEN 'december' THEN 12 " \o
    "ELSE 99 END"

\* measure
Measure(q) ==
    IF Contains(q, "quantidade") \/ Contains(q, "quantity") THEN "quantity"
    ELSE "sales_amount"

has_region(q) == Contains(q, "regi~o") \/ Contains(q, "region")

has_product(q) == Contains(q, "produto") \/ Contains(q, "product")

has_month(q) ==
    \/ Contains(q, "m^s") \/ Contains(q, "mes") \/ Contains(q, "month")
    \/ Contains(q, "tempo") \/ Contains(q, "tend") \/ Contains(q, "crescimento")
    \/ Contains(q, "varia&~o") \/ Contains(q, "evolu&~o")

wants_top(q) ==
    Contains(q, "top") \/ Contains(q, "maiores") \/ Contains(q, "rank")
        \/ Contains(q, "melhores")

\* limit
Limit(q) ==
    IF Contains(q, "10") THEN 10
    ELSE IF Contains(q, "5") \/ Contains(q, "cinco") THEN 5
    ELSE 0

\* the dimensions detected, appended to select_cols and to group_cols alike
Detected(q) ==
    (IF has_month(q) THEN <<"month">> ELSE <<>>)
        \o (IF has_product(q) THEN <<"product">> ELSE <<>>)
        \o (IF has_region(q) THEN <<"region">> ELSE <<>>)

\* select_cols before the aggregate is appended
SelectDims(q) == IF Len(Detected(q)) = 0 THEN <<"product">> ELSE Detected(q)

\* GroupCols with the dimensions appended in the order region, product, month
GroupColsRegionFirst(q) ==
    LET detected == (IF has_region(q) THEN <<"region">> ELSE <<>>)
                    \o (IF has_product(q) THEN <<"product">> ELSE <<>>)
                    \o (IF has_month(q) THEN <<"month">> ELSE <<>>)
    IN  IF Len(detected) = 0 THEN <<"product">> ELSE detected

\* group_cols
GroupCols(q) == IF Len(Detected(q)) = 0 THEN <<"product">> ELSE Detected(q)

\* OrderClause with the calendar order whenever month is one of the dimensions
OrderClauseAnyMonth(group_cols, measure) ==
    " ORDER BY " \o (IF \E i \in DOMAIN group_cols : group_cols[i] = "month"
                     THEN MonthOrder
                     ELSE "total_" \o measure \o " DESC")

OrderClause(group_cols, measure) ==
    " ORDER BY " \o (IF group_cols = <<"month">> THEN MonthOrder
                     ELSE "total_" \o measure \o " DESC")

LimitClause(q) ==
    IF wants_top(q) /\ Limit(q) > 0 THEN " LIMIT " \o IntToStr(Limit(q))
    ELSE IF wants_top(q) THEN " LIMIT 5"
    ELSE ""

\* the locals of _fallback_sql before the query is put together
FallbackPlan(question) ==
    LET q == Lower(question)
        group_cols == GroupCols(q)
    IN  [table |-> "sales",
         measure |-> Measure(q),
         group_cols |-> group_cols,
         select_cols |-> Append(SelectDims(q),
                                "SUM(" \o Measure(q) \o ") AS total_" \o Measure(q)),
         order_clause |-> OrderClause(group_cols, Measure(q)),
         limit_clause |-> LimitClause(q)]

_fallback_sql(question) ==
    LET plan == FallbackPlan(question)
        select_clause == Join(plan.select_cols, ", ")
        group_clause == IF Len(plan.group_cols) > 0
                        THEN " GROUP BY " \o Join(plan.group_cols, ", ")
                        ELSE ""
    IN  "SELECT " \o select_clause \o " FROM " \o plan.table \o group_clause
            \o plan.order_clause \o plan.limit_clause

(***************************************************************************)
(* generate_query: the three result records.  Confidences in hundredths.   *)
(***************************************************************************)
ConfidenceModel == 95
ConfidenceNoClient == 70
ConfidenceError == 60

Result(query, confidence, explanation, suggestions) ==
    [query |-> query,
     confidence |-> confidence,
     explanation |-> explanation,
     suggested_visualizations |-> suggestions.visualizations,
     suggested_follow_up_questions |-> suggestions.follow_up_questions]

\* no client configured
NoClientResult(req) ==
    Result(_fallback_sql(req.question), ConfidenceNoClient,
           "Heuristic SQL for: '" \o req.question \o "'",
           _generate_suggestions(req.question, ResolveSchema(req.schema)))

\* SuccessResult without the suggestions
SuccessResultWithoutSuggestions(req, sql_query) ==
    Result(sql_query, ConfidenceModel,
           "Generated SQL query for: '" \o req.question \o "'",
           [visualizations |-> <<>>, follow_up_questions |-> <<>>])

\* the try block after the model call returned sql_query
SuccessResult(req, sql_query) ==
    Result(sql_query, ConfidenceModel,
           "Generated SQL query for: '" \o req.question \o "'",
           _generate_suggestions(req.question, ResolveSchema(req.schema)))

\* ErrorResult with the confidence of the path without a client
ErrorResultAsHeuristic(req, e) ==
    Result(_fallback_sql(req.question), ConfidenceNoClient,
           "Fallback SQL due to error: " \o e,
           _generate_suggestions(req.question, ResolveSchema(req.schema)))

\* the except block
ErrorResult(req, e) ==
    Result(_fallback_sql(req.question), ConfidenceError,
           "Fallback SQL due to error: " \o e,
           _generate_suggestions(req.question, ResolveSchema(req.schema)))

\* response.choices[0].message.content.strip(); a response is the sequence of
\* the contents of its choices
ExtractSql(choices) ==
    IF Len(choices) = 0 THEN Raise("list index out of range")
    ELSE IF choices[1].t # "str"
    THEN Raise("'NoneType' object has no attribute 'strip'")
    ELSE Ok(Strip(choices[1].s))

(***************************************************************************)
(* The inputs.                                                             *)
(***************************************************************************)
Words ==
    {"vendas", "quantidade", "Regi~o", "produto", "m^s", "tend^ncia", "top",
     "5", "10"}

Distinct(ws) == \A i, j \in DOMAIN ws : i # j => ws[i] # ws[j]

Questions ==
    {Join(ws, " ") :
        ws \in {w \in UNION {[1..n -> Words] : n \in 0..MaxWords} : Distinct(w)}}

\* a caller's schema with another table, one column without its fields
orders_schema ==
    PyDict(<< <<"tables", PyDict(<< <<"orders", PyDict(<< <<"columns", PyDict(<<
        <<"customer", Column("TEXT", "Customer name")>>,
        <<"total", PyDict(<<>>)>>
    >>)>> >>)>> >>)>> >>)

\* a caller's schema whose table entry is not a mapping
malformed_schema ==
    PyDict(<< <<"tables", PyDict(<< <<"sales", PyStr("region, product")>> >>)>> >>)

Schemas == {PyNone, orders_schema, malformed_schema}

ExamplesValues ==
    {PyNone, PyList(<< PyDict(<< <<"question", PyStr("vendas por m^s")>> >>) >>)}

Requests == [question : Questions, schema : Schemas, examples : ExamplesValues]

\* what client.chat.completions.create may return
Responses ==
    {<<PyNone>>, <<PyStr("  select region FROM sales\n")>>,
     <<PyStr("   ")>>, <<PyStr("Sorry, I cannot help with that.")>>}

\* what client.chat.completions.create may raise
Errors == {"Request timed out."}

NoRequest == [question |-> "", schema |-> PyNone, examples |-> PyNone]
NoResult == [raised |-> FALSE, value |-> PyNone]
NoResponse == <<PyStr("no response")>>

(***************************************************************************)
(* The state machine: one request at a time through the router.            *)
(***************************************************************************)
\* LLMService.__init__: the client exists iff OPENAI_API_KEY is set
Init ==
    /\ client \in BOOLEAN
    /\ pc = "idle"
    /\ request = NoRequest
    /\ prompt = ""
    /\ calls = 0
    /\ outcome = "none"
    /\ response = NoResponse
    /\ result = NoResult

\* generate_query without a client: the heuristic at once
GenerateQueryNoClient ==
    /\ pc = "idle"
    /\ ~client
    /\ \E req \in Requests :
        /\ request' = req
        /\ result' = Ok(NoClientResult(req))
    /\ pc' = "done"
    /\ calls' = 0
    /\ outcome' = "none"
    /\ prompt' = ""
    /\ response' = NoResponse
    /\ UNCHANGED client

\* generate_query with a client, up to the call of the model: the prompt is
\* built outside the try block
GenerateQueryCall ==
    /\ pc = "idle"
    /\ client
    /\ \E req \in Requests :
        /\ request' = req
        /\ LET built == _build_prompt(req.question, ResolveSchema(req.schema),
                                      req.examples)
           IN  IF built.raised
               THEN /\ result' = built
                    /\ pc' = "raised"
                    /\ prompt' = ""
                    /\ calls' = 0
               ELSE /\ result' = NoResult
                    /\ pc' = "calling"
                    /\ prompt' = built.value
                    /\ calls' = 1
    /\ outcome' = "none"
    /\ response' = NoResponse
    /\ UNCHANGED client

\* the model call returns
ModelReturns ==
    /\ pc = "calling"
    /\ \E r \in Responses :
        /\ response' = r
        /\ LET sql_query == ExtractSql(r)
           IN  result' = IF sql_query.raised
                         THEN Ok(ErrorResult(request, sql_query.error))
                         ELSE Ok(SuccessResult(request, sql_query.value))
    /\ outcome' = "returned"
    /\ pc' = "done"
    /\ UNCHANGED <<client, request, prompt, calls>>

\* the model call raises
ModelRaises ==
    /\ pc = "calling"
    /\ \E e \in Errors : result' = Ok(ErrorResult(request, e))
    /\ outcome' = "raised"
    /\ pc' = "done"
    /\ UNCHANGED <<client, request, prompt, calls, response>>

\* translate_nl_to_query: the result goes out as a QueryResponse, anything
\* raised as an HTTPException, and the service takes the next request
Respond ==
    /\ pc \in {"done", "raised"}
    /\ pc' = "idle"
    /\ request' = NoRequest
    /\ result' = NoResult
    /\ prompt' = ""
    /\ calls' = 0
    /\ outcome' = "none"
    /\ response' = NoResponse
    /\ UNCHANGED client

Next ==
    \/ GenerateQueryNoClient
    \/ GenerateQueryCall
    \/ ModelReturns
    \/ ModelRaises
    \/ Respond

Spec == Init /\ [][Next]_vars

(***************************************************************************)
(* Reading a result back: the parts of a query                             *)
(*   SELECT <list> FROM <table> GROUP BY <list> ORDER BY <expr> [LIMIT <n>]  *)
(* and the names of a schema.                                              *)
(***************************************************************************)
\* the index of the first occurrence of sub in s, or 0
FirstIndex(s, sub) ==
    LET hits == {i \in 1..(Len(s) - Len(sub) + 1) : SubSeq(s, i, i + Len(sub) - 1) = sub}
    IN  IF hits = {} THEN 0 ELSE CHOOSE i \in hits : \A j \in hits : i <= j

\* what follows the first occurrence of mark ("" when there is none)
After(s, mark) ==
    LET at == FirstIndex(s, mark)
    IN  IF at = 0 THEN "" ELSE SubSeq(s, at + Len(mark), Len(s))

\* what precedes the first occurrence of mark (all of s when there is none)
Before(s, mark) ==
    LET at == FirstIndex(s, mark)
    IN  IF at = 0 THEN s ELSE SubSeq(s, 1, at - 1)

Between(s, open, close) == Before(After(s, open), close)

RECURSIVE Split(_, _)
Split(s, sep) ==
    IF FirstIndex(s, sep) = 0 THEN <<s>>
    ELSE <<Before(s, sep)>> \o Split(After(s, sep), sep)

SelectList(query) == Split(Between(query, "SELECT ", " FROM "), ", ")
FromTable(query) == Between(query, " FROM ", " GROUP BY ")
GroupByList(query) == Split(Between(query, " GROUP BY ", " ORDER BY "), ", ")
OrderBy(query) == Before(After(query, " ORDER BY "), " LIMIT ")
HasLimit(query) == FirstIndex(query, " LIMIT ") # 0
LimitText(query) == After(query, " LIMIT ")
\* the column inside SUM(...)
MeasureOf(query) == Between(query, "SUM(", ")")

Range(seq) == {seq[i] : i \in DOMAIN seq}

\* the names of the tables of a schema
SchemaTables(schema) ==
    IF schema.t = "dict" /\ HasKey(schema, "tables")
           /\ Lookup(schema, "tables").t = "dict"
    THEN {item[1] : item \in Range(Lookup(schema, "tables").items)}
    ELSE {}

\* the names of the columns of a table of a schema
SchemaColumns(schema, table) ==
    IF table \in SchemaTables(schema)
    THEN LET info == Lookup(Lookup(schema, "tables"), table)
         IN  IF info.t = "dict" /\ HasKey(info, "columns")
                    /\ Lookup(info, "columns").t = "dict"
             THEN {item[1] : item \in Range(Lookup(info, "columns").items)}
             ELSE {}
    ELSE {}

\* generate_query has returned a result record
Returned == pc = "done"

\* the result came from the heuristic
FellBack == Returned /\ result.value.confidence \in {ConfidenceNoClient, ConfidenceError}

\* the model call returned a response whose first choice carries text
ReturnedText == outcome = "returned" /\ Len(response) > 0 /\ response[1].t = "str"

(***************************************************************************)
(* The claims.                                                             *)
(***************************************************************************)
\* C1: for every non-empty question and on every path of generate_query, the
\* returned query is non-empty and begins, case-insensitively, with SELECT,
\* also when the model call succeeds and returns arbitrary text.
C1_QueryBeginsWithSelect ==
    (Returned /\ request.question # "") =>
        /\ result.value.query # ""
        /\ StartsWith(Lower(result.value.query), "select")

\* C2: generate_query is total: for every question, schema and examples, with
\* or without a client, it returns a result record and never raises to its
\* caller.
C2_NeverRaises == pc # "raised"

\* C3 as claimed: the confidence is 0.95 exactly when the model call was made
\* and returned, 0.7 exactly when no client is configured, 0.6 exactly when a
\* configured model call raised; in both fallback cases the query is the
\* heuristic builder's output for the question.
C3_ConfidenceIdentifiesPath ==
    Returned =>
        /\ result.value.confidence = ConfidenceModel <=> outcome = "returned"
        /\ result.value.confidence = ConfidenceNoClient <=> ~client
        /\ result.value.confidence = ConfidenceError <=> outcome = "raised"
        /\ FellBack => result.value.query = _fallback_sql(request.question)

\* C3 as amended: the confidence is 0.95 exactly when the model call returned
\* a response whose first choice carries text, 0.7 exactly when no client is
\* configured, 0.6 exactly when a configured model call raised or returned a
\* response without a choice or without text; in both fallback cases the query
\* is the heuristic builder's output for the question.
C3_ConfidenceIdentifiesOutcome ==
    Returned =>
        /\ result.value.confidence = ConfidenceModel <=> ReturnedText
        /\ result.value.confidence = ConfidenceNoClient <=> ~client
        /\ result.value.confidence = ConfidenceError <=>
               (outcome = "raised" \/ (outcome = "returned" /\ ~ReturnedText))
        /\ FellBack => result.value.query = _fallback_sql(request.question)

\* the model call returned a response without text and the heuristic answered
C3_Witness ==
    /\ Returned
    /\ outcome = "returned"
    /\ response = <<PyNone>>
    /\ result.value.confidence = ConfidenceError
    /\ result.value.query = "SELECT product, SUM(sales_amount) AS total_sales_amount"
           \o " FROM sales GROUP BY product ORDER BY total_sales_amount DESC"

DimensionOrders ==
    {<<"month">>, <<"product">>, <<"region">>, <<"month", "product">>,
     <<"month", "region">>, <<"product", "region">>,
     <<"month", "product", "region">>}

\* C4: the dimension columns of the heuristic query, in SELECT and in GROUP BY,
\* are the detected roles in the order month, product, region, whatever the
\* order of the keywords in the question; with no dimension keyword the one
\* dimension is product; GROUP BY is SELECT without the one aggregate.
C4_DimensionOrder ==
    FellBack =>
        LET q == Lower(request.question)
            select == SelectList(result.value.query)
            group == GroupByList(result.value.query)
        IN  /\ group \in DimensionOrders
            /\ "month" \in Range(group) <=> has_month(q)
            /\ "region" \in Range(group) <=> has_region(q)
            /\ "product" \in Range(group) <=>
                   (has_product(q) \/ ~(has_month(q) \/ has_region(q)))
            /\ Len(select) = Len(group) + 1
            /\ SubSeq(select, 1, Len(group)) = group
            /\ StartsWith(select[Len(select)], "SUM(")

\* the question names the region before the product and the month
C4_Witness ==
    /\ FellBack
    /\ request.question = "Regi~o produto m^s"
    /\ SelectList(result.value.query)
           = <<"month", "product", "region", "SUM(sales_amount) AS total_sales_amount">>
    /\ GroupByList(result.value.query) = <<"month", "product", "region">>

MonthNames ==
    <<"january", "february", "march", "april", "may", "june", "july", "august",
      "september", "october", "november", "december">>

\* the CASE expression that numbers the months of the year, anything else 99
CalendarOrder(expr) ==
    /\ StartsWith(expr, "CASE lower(month) WHEN ")
    /\ \A i \in DOMAIN MonthNames :
           Contains(expr, "WHEN '" \o MonthNames[i] \o "' THEN " \o IntToStr(i) \o " ")
    /\ EndsWith(expr, " ELSE 99 END")

\* C5: the heuristic query has a non-empty ORDER BY, which is the calendar
\* CASE expression on lower(month) exactly when month is the sole dimension,
\* and total_<measure> DESC otherwise, the measure being quantity if a quantity
\* keyword matches and sales_amount if none does.
C5_OrderBy ==
    FellBack =>
        LET q == Lower(request.question)
            order == OrderBy(result.value.query)
            group == GroupByList(result.value.query)
            measure == IF Contains(q, "quantidade") \/ Contains(q, "quantity")
                       THEN "quantity" ELSE "sales_amount"
        IN  /\ order # ""
            /\ CalendarOrder(order) <=> group = <<"month">>
            /\ group # <<"month">> => order = "total_" \o measure \o " DESC"

\* month is the sole dimension of a ranking by quantity
C5_Witness ==
    /\ FellBack
    /\ request.question = "top quantidade m^s"
    /\ GroupByList(result.value.query) = <<"month">>
    /\ CalendarOrder(OrderBy(result.value.query))
    /\ HasLimit(result.value.query)

\* the rank limit as claimed: the first match of 5 or 10, else 5
FirstMatchLimit(q) ==
    IF FirstIndex(q, "10") # 0
           /\ (FirstIndex(q, "5") = 0 \/ FirstIndex(q, "10") < FirstIndex(q, "5"))
    THEN 10
    ELSE 5

\* C6: the heuristic query ends with a LIMIT clause iff the question has a
\* ranking keyword; its value is the first match of 5 or 10 in the question,
\* else 5 for the word cinco, else the default 5.
C6_LimitFirstMatch ==
    FellBack =>
        LET q == Lower(request.question)
        IN  /\ HasLimit(result.value.query) <=> wants_top(q)
            /\ HasLimit(result.value.query) =>
                   LimitText(result.value.query) = IntToStr(FirstMatchLimit(q))

\* C7: the suggested visualization is bar_chart if the question has a sales
\* keyword and a region or product keyword; else line_chart if it has a time
\* keyword, with or without a sales keyword; else pie_chart if it has a sales
\* keyword; else table.
C7_VisualizationPrecedence ==
    Returned =>
        LET q == Lower(request.question)
        IN  result.value.suggested_visualizations =
                IF AnyIn(q, SalesWords) /\ AnyIn(q, PlaceWords) THEN <<"bar_chart">>
                ELSE IF AnyIn(q, TimeWords) THEN <<"line_chart">>
                ELSE IF AnyIn(q, SalesWords) THEN <<"pie_chart">>
                ELSE <<"table">>

\* C8: once generate_query is over, the model was called zero times when no
\* client is configured and exactly once otherwise.
C8_ExactlyOneCall ==
    pc \in {"done", "raised"} => calls = (IF client THEN 1 ELSE 0)

\* The part of C8 that holds: never a second call, and a call only with a
\* client.
AtMostOneCall == calls <= 1 /\ (calls = 1 => client)

\* C9: the table in FROM and the columns in SELECT, GROUP BY and ORDER BY of
\* the heuristic query exist in the resolved schema (the caller's, or the
\* built-in one when none is given); stated for the schemas whose entries are
\* all mappings.
C9_SchemaConsistent ==
    (FellBack /\ ~_format_schema(ResolveSchema(request.schema)).raised) =>
        LET schema == ResolveSchema(request.schema)
            table == FromTable(result.value.query)
        IN  /\ table \in SchemaTables(schema)
            /\ Range(GroupByList(result.value.query)) \cup {MeasureOf(result.value.query)}
                   \subseteq SchemaColumns(schema, table)

VisualizationLabels == {"bar_chart", "line_chart", "pie_chart", "table"}

\* C10: on every path the result carries suggestions that depend on the
\* question alone: each list is non-empty with at most 3 entries, the
\* visualizations are among the four labels, and the lists are the same
\* whichever path answered.
C10_Suggestions ==
    Returned =>
        LET visualizations == result.value.suggested_visualizations
            follow_ups == result.value.suggested_follow_up_questions
            suggestions == _generate_suggestions(request.question, default_schema)
        IN  /\ Len(visualizations) \in 1..3
            /\ Len(follow_ups) \in 1..3
            /\ Range(visualizations) \subseteq VisualizationLabels
            /\ visualizations = suggestions.visualizations
            /\ follow_ups = suggestions.follow_up_questions

\* the model answered a question about sales by region, under a caller's schema
C10_Witness ==
    /\ Returned
    /\ result.value.confidence = ConfidenceModel
    /\ request.schema = orders_schema
    /\ request.question = "vendas Regi~o"
    /\ result.value.suggested_visualizations = <<"bar_chart">>
    /\ result.value.suggested_follow_up_questions
           = <<"Quais regi#es tiveram melhor performance?",
               "Compare vendas por regi~o e produto">>

====
